---- MODULE Spec2Model ----
(***************************************************************************)
(* Pashucare chat application: the Convex store accessors                  *)
(* (apps/web/convex/chats.ts) and the chat view's send workflow            *)
(* (apps/web/app/chat/components/active-chat-input.tsx).                   *)
(*                                                                         *)
(* Strings are sequences of one-character strings, so that length,        *)
(* concatenation and trim are computed.  An optional argument is a         *)
(* sequence of length 0 (absent) or 1 (present).  Document ids are the     *)
(* positions of the documents in their table.                              *)
(***************************************************************************)
EXTENDS Integers, Sequences, FiniteSets, TLC

VARIABLES
    chats,              \* table "chats"
    messages,           \* table "messages"
    now,                \* Date.now()
    isStreaming,        \* useState(false)
    streamingContent,   \* useState("")
    pendingMessageId,   \* useState(null)
    abortControllerRef, \* useRef(null): the run whose AbortController it holds
    hasAutoTriggered,   \* useRef(false)
    autoTrigger,        \* prop of ActiveChatInput
    session,            \* the identity the backend resolves for the view's calls
    runs,               \* the sendMessage invocations of this view
    log,                \* the store calls issued by the view, in order
    bridge,             \* one request to the chat route (POST)
    uploadArea,         \* state of UploadArea: file, isUploading, ...
    uploadRun,          \* the handleUpload invocation in progress
    uploaderCalls       \* the saveReport and saveAnalysis calls issued

vars == <<chats, messages, now, isStreaming, streamingContent,
          pendingMessageId, abortControllerRef, hasAutoTriggered, autoTrigger,
          session, runs, log, bridge, uploadArea, uploadRun, uploaderCalls>>

storeVars == <<chats, messages, now>>
viewVars == <<isStreaming, streamingContent, pendingMessageId,
              abortControllerRef, hasAutoTriggered, autoTrigger, session, runs,
              log>>
bridgeVars == <<bridge>>
uploadVars == <<uploadArea, uploadRun, uploaderCalls>>

(***************************************************************************)
(* Bounds                                                                  *)
(***************************************************************************)
MaxChats == 2
MaxMessages == 2
MaxClock == 4
MaxLen == 5
MaxRuns == 2
MaxFrags == 2
MaxBody == 2        \* messages in a request to the chat route
MaxUpstream == 3    \* chunks of one upstream completion stream
MaxUploads == 2     \* handleUpload invocations of one UploadArea
MaxAnalysis == 2    \* chunks of one analysis stream

(***************************************************************************)
(* Values                                                                  *)
(***************************************************************************)
Users == {"A", "B"}
NoIdentity == "anonymous"
Identities == Users \cup {NoIdentity}

Roles == {"user", "assistant", "system"}
Statuses == {"pending", "streaming", "sent", "error"}
NoStatus == "none"
NoTime == 0

Absent == <<>>
Some(x) == <<x>>

Str(n, ch) == [i \in 1..n |-> ch]
Contents == {Str(0, "a"), Str(MaxLen, "a")}
Names == {<<" ", "n", " ">>, <<" ">>}

ChatIds == 1..MaxChats
MessageIds == 1..MaxMessages

(***************************************************************************)
(* JavaScript helpers                                                      *)
(***************************************************************************)
RECURSIVE TrimStart(_)
TrimStart(s) == IF s # <<>> /\ Head(s) = " " THEN TrimStart(Tail(s)) ELSE s

RECURSIVE TrimEnd(_)
TrimEnd(s) ==
    IF s # <<>> /\ s[Len(s)] = " " THEN TrimEnd(SubSeq(s, 1, Len(s) - 1)) ELSE s

trim(s) == TrimEnd(TrimStart(s))

ceilDiv4_Floor(n) == n \div 4

ceilDiv4(n) == (n + 3) \div 4

(***************************************************************************)
(* The database                                                            *)
(***************************************************************************)
Null == [isNull |-> TRUE]

dbGet(table, id) == IF id \in DOMAIN table THEN table[id] ELSE Null

Ok(ret, c, m) == [err |-> "", ret |-> ret, chats |-> c, messages |-> m]
Throw(e, c, m) == [err |-> e, ret |-> Absent, chats |-> c, messages |-> m]

(***************************************************************************)
(* Queries                                                                 *)
(***************************************************************************)
getChatById_NoOwnerCheck(c, m, identity, chatId) ==
    IF identity = NoIdentity THEN Ok(Absent, c, m)
    ELSE LET chat == dbGet(c, chatId) IN
         IF chat = Null \/ chat.isDeleted
         THEN Ok(Absent, c, m)
         ELSE Ok(Some(chat), c, m)

getChatById(c, m, identity, chatId) ==
    IF identity = NoIdentity THEN Ok(Absent, c, m)
    ELSE LET chat == dbGet(c, chatId) IN
         IF chat = Null \/ chat.userId # identity \/ chat.isDeleted
         THEN Ok(Absent, c, m)
         ELSE Ok(Some(chat), c, m)

\* ids of the rows, newest first (order "desc")
RECURSIVE Desc(_)
Desc(ids) ==
    IF ids = {} THEN <<>>
    ELSE LET top == CHOOSE i \in ids : \A j \in ids : j <= i
         IN <<top>> \o Desc(ids \ {top})

getUserChats_NoActiveFilter(c, m, identity) ==
    IF identity = NoIdentity THEN Throw("Unauthenticated", c, m)
    ELSE Ok(Desc({i \in DOMAIN c : c[i].userId = identity}), c, m)

getUserChats(c, m, identity) ==
    IF identity = NoIdentity THEN Throw("Unauthenticated", c, m)
    ELSE Ok(Desc({i \in DOMAIN c :
                    c[i].userId = identity /\ c[i].isDeleted = FALSE}), c, m)

getChatMessages_AnyChat(c, m, identity, chatId) ==
    IF identity = NoIdentity THEN Throw("Unauthenticated", c, m)
    ELSE LET chat == dbGet(c, chatId) IN
         IF chat = Null \/ chat.userId # identity \/ chat.isDeleted
         THEN Throw("Chat not found or unauthorized", c, m)
         ELSE Ok(Desc(DOMAIN m), c, m)

getChatMessages(c, m, identity, chatId) ==
    IF identity = NoIdentity THEN Throw("Unauthenticated", c, m)
    ELSE LET chat == dbGet(c, chatId) IN
         IF chat = Null \/ chat.userId # identity \/ chat.isDeleted
         THEN Throw("Chat not found or unauthorized", c, m)
         ELSE Ok(Desc({i \in DOMAIN m : m[i].chatId = chatId}), c, m)

(***************************************************************************)
(* Mutations.  A mutation is one transaction: it either throws and leaves  *)
(* the tables as they were, or applies all its writes.                     *)
(***************************************************************************)
createChat_NoIdentityCheck(c, m, t, identity, name, initialMessage) ==
    LET truthy == initialMessage # Absent /\ initialMessage[1] # <<>>
        chatId == Len(c) + 1
        c1 == Append(c, [name |-> name, userId |-> identity,
                         createdAt |-> t, updatedAt |-> t,
                         isDeleted |-> FALSE,
                         messageCount |-> IF truthy THEN 1 ELSE 0])
        m1 == IF truthy
              THEN Append(m, [chatId |-> chatId, role |-> "user",
                              content |-> initialMessage[1],
                              status |-> "sent", createdAt |-> t,
                              updatedAt |-> NoTime,
                              tokens |-> ceilDiv4(Len(initialMessage[1]))])
              ELSE m
    IN Ok(Some(chatId), c1, m1)

createChat(c, m, t, identity, name, initialMessage) ==
    IF identity = NoIdentity THEN Throw("Unauthenticated", c, m)
    ELSE LET truthy == initialMessage # Absent /\ initialMessage[1] # <<>>
             chatId == Len(c) + 1
             c1 == Append(c, [name |-> name, userId |-> identity,
                              createdAt |-> t, updatedAt |-> t,
                              isDeleted |-> FALSE,
                              messageCount |-> IF truthy THEN 1 ELSE 0])
             m1 == IF truthy
                   THEN Append(m, [chatId |-> chatId, role |-> "user",
                                   content |-> initialMessage[1],
                                   status |-> "sent", createdAt |-> t,
                                   updatedAt |-> NoTime,
                                   tokens |-> ceilDiv4(Len(initialMessage[1]))])
                   ELSE m
         IN Ok(Some(chatId), c1, m1)

createMessage_AlwaysPending(c, m, t, identity, chatId, role, content) ==
    IF identity = NoIdentity THEN Throw("Unauthenticated", c, m)
    ELSE LET chat == dbGet(c, chatId) IN
         IF chat = Null \/ chat.userId # identity \/ chat.isDeleted
         THEN Throw("Unauthorized or chat not found", c, m)
         ELSE LET messageId == Len(m) + 1
                  m1 == Append(m, [chatId |-> chatId, role |-> role,
                                   content |-> content,
                                   status |-> "pending",
                                   createdAt |-> t, updatedAt |-> NoTime,
                                   tokens |-> ceilDiv4(Len(content))])
                  c1 == [c EXCEPT ![chatId] =
                            [@ EXCEPT !.updatedAt = t,
                                      !.messageCount = chat.messageCount + 1]]
              IN Ok(Some(messageId), c1, m1)

createMessage_NoCount(c, m, t, identity, chatId, role, content) ==
    IF identity = NoIdentity THEN Throw("Unauthenticated", c, m)
    ELSE LET chat == dbGet(c, chatId) IN
         IF chat = Null \/ chat.userId # identity \/ chat.isDeleted
         THEN Throw("Unauthorized or chat not found", c, m)
         ELSE LET messageId == Len(m) + 1
                  m1 == Append(m, [chatId |-> chatId, role |-> role,
                                   content |-> content,
                                   status |-> IF role = "user" THEN "sent"
                                              ELSE "pending",
                                   createdAt |-> t, updatedAt |-> NoTime,
                                   tokens |-> ceilDiv4(Len(content))])
                  c1 == [c EXCEPT ![chatId] = [@ EXCEPT !.updatedAt = t]]
              IN Ok(Some(messageId), c1, m1)

createMessage(c, m, t, identity, chatId, role, content) ==
    IF identity = NoIdentity THEN Throw("Unauthenticated", c, m)
    ELSE LET chat == dbGet(c, chatId) IN
         IF chat = Null \/ chat.userId # identity \/ chat.isDeleted
         THEN Throw("Unauthorized or chat not found", c, m)
         ELSE LET messageId == Len(m) + 1
                  m1 == Append(m, [chatId |-> chatId, role |-> role,
                                   content |-> content,
                                   status |-> IF role = "user" THEN "sent"
                                              ELSE "pending",
                                   createdAt |-> t, updatedAt |-> NoTime,
                                   tokens |-> ceilDiv4(Len(content))])
                  c1 == [c EXCEPT ![chatId] =
                            [@ EXCEPT !.updatedAt = t,
                                      !.messageCount = chat.messageCount + 1]]
              IN Ok(Some(messageId), c1, m1)

updateMessage_RecomputeTokens(c, m, t, identity, messageId, content, status, append) ==
    IF identity = NoIdentity THEN Throw("Unauthenticated", c, m)
    ELSE LET message == dbGet(m, messageId) IN
         IF message = Null THEN Throw("Message not found", c, m)
         ELSE LET chat == dbGet(c, message.chatId) IN
              IF chat = Null \/ chat.userId # identity
              THEN Throw("Unauthorized", c, m)
              ELSE LET s1 == IF status # NoStatus THEN status
                             ELSE message.status
                       appending == append = Some(TRUE) /\ message.content # <<>>
                       c1 == IF content = Absent THEN message.content
                             ELSE IF appending
                                  THEN message.content \o content[1]
                                  ELSE content[1]
                       u1 == IF content = Absent THEN message.updatedAt ELSE t
                       m1 == [m EXCEPT ![messageId] =
                                [@ EXCEPT !.status = s1, !.content = c1,
                                          !.updatedAt = u1,
                                          !.tokens = ceilDiv4(Len(c1))]]
                       ch1 == IF status = "sent" /\ message.status # "sent"
                              THEN [c EXCEPT ![message.chatId] =
                                       [@ EXCEPT !.updatedAt = t]]
                              ELSE c
                   IN Ok(Absent, ch1, m1)

updateMessage_ReplaceOnly(c, m, t, identity, messageId, content, status, append) ==
    IF identity = NoIdentity THEN Throw("Unauthenticated", c, m)
    ELSE LET message == dbGet(m, messageId) IN
         IF message = Null THEN Throw("Message not found", c, m)
         ELSE LET chat == dbGet(c, message.chatId) IN
              IF chat = Null \/ chat.userId # identity
              THEN Throw("Unauthorized", c, m)
              ELSE LET s1 == IF status # NoStatus THEN status
                             ELSE message.status
                       c1 == IF content = Absent THEN message.content
                             ELSE content[1]
                       u1 == IF content = Absent THEN message.updatedAt ELSE t
                       m1 == [m EXCEPT ![messageId] =
                                [@ EXCEPT !.status = s1, !.content = c1,
                                          !.updatedAt = u1]]
                       ch1 == IF status = "sent" /\ message.status # "sent"
                              THEN [c EXCEPT ![message.chatId] =
                                       [@ EXCEPT !.updatedAt = t]]
                              ELSE c
                   IN Ok(Absent, ch1, m1)

updateMessage_AlwaysBump(c, m, t, identity, messageId, content, status, append) ==
    IF identity = NoIdentity THEN Throw("Unauthenticated", c, m)
    ELSE LET message == dbGet(m, messageId) IN
         IF message = Null THEN Throw("Message not found", c, m)
         ELSE LET chat == dbGet(c, message.chatId) IN
              IF chat = Null \/ chat.userId # identity
              THEN Throw("Unauthorized", c, m)
              ELSE LET s1 == IF status # NoStatus THEN status
                             ELSE message.status
                       appending == append = Some(TRUE) /\ message.content # <<>>
                       c1 == IF content = Absent THEN message.content
                             ELSE IF appending
                                  THEN message.content \o content[1]
                                  ELSE content[1]
                       u1 == IF content = Absent THEN message.updatedAt ELSE t
                       m1 == [m EXCEPT ![messageId] =
                                [@ EXCEPT !.status = s1, !.content = c1,
                                          !.updatedAt = u1]]
                       ch1 == IF status = "sent"
                              THEN [c EXCEPT ![message.chatId] =
                                       [@ EXCEPT !.updatedAt = t]]
                              ELSE c
                   IN Ok(Absent, ch1, m1)

updateMessage(c, m, t, identity, messageId, content, status, append) ==
    IF identity = NoIdentity THEN Throw("Unauthenticated", c, m)
    ELSE LET message == dbGet(m, messageId) IN
         IF message = Null THEN Throw("Message not found", c, m)
         ELSE LET chat == dbGet(c, message.chatId) IN
              IF chat = Null \/ chat.userId # identity
              THEN Throw("Unauthorized", c, m)
              ELSE LET s1 == IF status # NoStatus THEN status
                             ELSE message.status
                       appending == append = Some(TRUE) /\ message.content # <<>>
                       c1 == IF content = Absent THEN message.content
                             ELSE IF appending
                                  THEN message.content \o content[1]
                                  ELSE content[1]
                       u1 == IF content = Absent THEN message.updatedAt ELSE t
                       m1 == [m EXCEPT ![messageId] =
                                [@ EXCEPT !.status = s1, !.content = c1,
                                          !.updatedAt = u1]]
                       ch1 == IF status = "sent" /\ message.status # "sent"
                              THEN [c EXCEPT ![message.chatId] =
                                       [@ EXCEPT !.updatedAt = t]]
                              ELSE c
                   IN Ok(Absent, ch1, m1)

softDeleteChat_Toggle(c, m, t, identity, chatId) ==
    IF identity = NoIdentity THEN Throw("Unauthenticated", c, m)
    ELSE LET chat == dbGet(c, chatId) IN
         IF chat = Null \/ chat.userId # identity
         THEN Throw("Unauthorized", c, m)
         ELSE Ok(Absent,
                 [c EXCEPT ![chatId] = [@ EXCEPT !.isDeleted = ~chat.isDeleted,
                                                 !.updatedAt = t,
                                                 !.name = <<>>]],
                 m)

softDeleteChat(c, m, t, identity, chatId) ==
    IF identity = NoIdentity THEN Throw("Unauthenticated", c, m)
    ELSE LET chat == dbGet(c, chatId) IN
         IF chat = Null \/ chat.userId # identity
         THEN Throw("Unauthorized", c, m)
         ELSE Ok(Absent,
                 [c EXCEPT ![chatId] = [@ EXCEPT !.isDeleted = TRUE,
                                                 !.updatedAt = t,
                                                 !.name = <<>>]],
                 m)

renameChat_NoOwnerCheck(c, m, t, identity, chatId, name) ==
    IF identity = NoIdentity THEN Throw("Unauthenticated", c, m)
    ELSE LET chat == dbGet(c, chatId) IN
         IF chat = Null
         THEN Throw("Unauthorized", c, m)
         ELSE Ok(Absent,
                 [c EXCEPT ![chatId] = [@ EXCEPT !.name = trim(name),
                                                 !.updatedAt = t]],
                 m)

renameChat(c, m, t, identity, chatId, name) ==
    IF identity = NoIdentity THEN Throw("Unauthenticated", c, m)
    ELSE LET chat == dbGet(c, chatId) IN
         IF chat = Null \/ chat.userId # identity
         THEN Throw("Unauthorized", c, m)
         ELSE Ok(Absent,
                 [c EXCEPT ![chatId] = [@ EXCEPT !.name = trim(name),
                                                 !.updatedAt = t]],
                 m)

(***************************************************************************)
(* The store interface called by arbitrary clients                         *)
(***************************************************************************)
\* no request has reached the chat route
BridgeIdle ==
    bridge = [pc |-> "idle", messages |-> <<>>, fullMessages |-> <<>>,
              status |-> 0, delivered |-> <<>>, enqueued |-> <<>>,
              closed |-> FALSE, errored |-> FALSE, cancelled |-> FALSE,
              aborted |-> FALSE]

\* UploadArea as mounted (lines 35-40), nothing uploaded
UploadIdle ==
    /\ uploadArea = [file |-> Null, isUploading |-> FALSE, analysis |-> <<>>,
                     isAnalyzing |-> FALSE]
    /\ uploadRun = [pc |-> "idle", n |-> 0, file |-> Null, uploadOk |-> FALSE,
                    storageId |-> 0, status |-> 0, hasBody |-> FALSE,
                    reportId |-> 0, fullAnalysis |-> <<>>, received |-> 0,
                    stream |-> "none"]
    /\ uploaderCalls = <<>>

ViewIdle ==
    /\ isStreaming = FALSE
    /\ streamingContent = <<>>
    /\ pendingMessageId = 0
    /\ abortControllerRef = 0
    /\ hasAutoTriggered = FALSE
    /\ runs = <<>>
    /\ log = <<>>

Init ==
    /\ chats = <<>>
    /\ messages = <<>>
    /\ now = 1
    /\ autoTrigger = FALSE
    /\ session = NoIdentity
    /\ ViewIdle
    /\ BridgeIdle
    /\ UploadIdle

\* a mutation's outcome becomes the new store; a successful one is stamped
\* with the current time and the clock moves on
Commit(r) ==
    /\ chats' = r.chats
    /\ messages' = r.messages
    /\ now' = IF r.err = "" THEN now + 1 ELSE now
    /\ UNCHANGED <<viewVars, bridgeVars, uploadVars>>

\* a query returns or throws and writes nothing
Answer(r) ==
    /\ r.err \in STRING
    /\ UNCHANGED vars

InBounds(r) ==
    r.err = "" => /\ now < MaxClock
                  /\ Len(r.chats) <= MaxChats
                  /\ Len(r.messages) <= MaxMessages
                  /\ \A i \in DOMAIN r.messages :
                        Len(r.messages[i].content) <= 2 * MaxLen

OptContents == {Absent} \cup {Some(x) : x \in Contents}
OptBooleans == {Absent, Some(TRUE), Some(FALSE)}

CallGetUserChats ==
    \E u \in Identities : Answer(getUserChats(chats, messages, u))

CallGetChatById ==
    \E u \in Identities, id \in ChatIds :
        Answer(getChatById(chats, messages, u, id))

CallGetChatMessages ==
    \E u \in Identities, id \in ChatIds :
        Answer(getChatMessages(chats, messages, u, id))

CallCreateChat ==
    \E u \in Identities, name \in Names, initialMessage \in OptContents :
        LET r == createChat(chats, messages, now, u, name, initialMessage)
        IN InBounds(r) /\ Commit(r)

CallCreateMessage ==
    \E u \in Identities, id \in ChatIds, role \in Roles, content \in Contents :
        LET r == createMessage(chats, messages, now, u, id, role, content)
        IN InBounds(r) /\ Commit(r)

\* the argument shapes clients call updateMessage with: a status alone, a
\* content with or without append, a content with a terminal status
UpdateArgs ==
    {<<Absent, s, Absent>> : s \in Statuses \cup {NoStatus}}
        \cup {<<Some(x), NoStatus, a>> : x \in Contents, a \in OptBooleans}
        \cup {<<Some(x), s, Absent>> : x \in Contents, s \in {"sent", "error"}}

CallUpdateMessage ==
    \E u \in Identities, id \in MessageIds, args \in UpdateArgs :
        LET r == updateMessage(chats, messages, now, u, id, args[1], args[2],
                               args[3])
        IN InBounds(r) /\ Commit(r)

CallSoftDeleteChat ==
    \E u \in Identities, id \in ChatIds :
        LET r == softDeleteChat(chats, messages, now, u, id)
        IN InBounds(r) /\ Commit(r)

CallRenameChat ==
    \E u \in Identities, id \in ChatIds, name \in Names :
        LET r == renameChat(chats, messages, now, u, id, name)
        IN InBounds(r) /\ Commit(r)

Next ==
    \/ CallGetUserChats
    \/ CallGetChatById
    \/ CallGetChatMessages
    \/ CallCreateChat
    \/ CallCreateMessage
    \/ CallUpdateMessage
    \/ CallSoftDeleteChat
    \/ CallRenameChat

Spec == Init /\ [][Next]_vars

TypeOK ==
    /\ now \in 1..MaxClock
    /\ \A i \in DOMAIN chats : chats[i].userId \in Users
    /\ \A i \in DOMAIN messages :
          /\ messages[i].role \in Roles
          /\ messages[i].status \in Statuses
          /\ messages[i].chatId \in DOMAIN chats

(***************************************************************************)
(* The chat view: ActiveChatInput mounted by ChatIdPage on chat ViewChat,   *)
(* signed in as Owner.  A run is one invocation of sendMessage.  A store    *)
(* call takes effect when it is issued (the client sends its mutations in   *)
(* order) and the run resumes from its await in a later step.               *)
(***************************************************************************)
Owner == "A"
ViewChat == 1

Inputs == {<<" ", "q">>, <<" ">>}

\* the text the bridge streams in answer to run i, cut into chunks: chunk k
\* of run i is one letter, different for every run and position
Letters == <<"a", "b", "c", "d", "e", "f", "g", "h", "i", "j", "k", "l", "m",
             "n", "o", "p">>
Chunk(i, k) == <<Letters[(i - 1) * (MaxFrags + 1) + k]>>

RECURSIVE Received(_, _)
Received(i, k) == IF k = 0 THEN <<>> ELSE Received(i, k - 1) \o Chunk(i, k)
FailedToGenerate == <<"!">>

NewRun(content, skip) ==
    [pc |-> "start", content |-> content, skipUserMessage |-> skip,
     assistantMessageId |-> 0, accumulatedContent |-> <<>>,
     err |-> "", ret |-> 0, hasController |-> FALSE, aborted |-> FALSE,
     received |-> 0, failed |-> FALSE, stopped |-> FALSE, stopPc |-> "",
     stopContent |-> <<>>, calledAfterStop |-> FALSE,
     messages |-> <<>>, body |-> <<>>]

\* log[id]: the updateMessage calls issued for message id, in order
LogEntry(by, content, status, err) ==
    [by |-> by, content |-> content, status |-> status, err |-> err]

\* messages of the view's chat as the paginated query returns them
ViewMessages ==
    getChatMessages(chats, messages, Owner, ViewChat).ret

\* `messages` of the render whose sendMessage is called (lines 64-66), newest
\* first; the request reads role and content of each
LoadedMessages ==
    [k \in DOMAIN ViewMessages |->
        [role |-> messages[ViewMessages[k]].role,
         content |-> messages[ViewMessages[k]].content]]

reverse(s) == [k \in DOMAIN s |-> s[Len(s) + 1 - k]]

\* lines 127-130
historyForApi(loaded) == reverse(loaded)

\* the messages of the request body (lines 136-139)
requestMessages(loaded, content) ==
    historyForApi(loaded) \o <<[role |-> "user", content |-> trim(content)]>>

InProgress(i) == runs[i].pc # "done"

\* the store call a step issues: its effect on the tables
Issue(r) ==
    /\ chats' = r.chats
    /\ messages' = r.messages
    /\ UNCHANGED now

NoIssue == UNCHANGED <<storeVars, log>>

IssueCreateMessage(i, role, content) ==
    LET r == createMessage(chats, messages, now, session, ViewChat, role,
                           content)
    IN /\ Issue(r)
       /\ log' = IF r.err = "" THEN Append(log, <<>>) ELSE log

IssueUpdateMessage(i, id, content, status, append) ==
    LET r == updateMessage(chats, messages, now, session, id, content, status,
                           append)
    IN /\ Issue(r)
       /\ log' = [log EXCEPT ![id] =
                     Append(@, LogEntry(i, content, status, r.err))]

\* a run that goes on after a stop counts the store calls it issues
Called(run) ==
    IF run.stopped THEN [run EXCEPT !.calledAfterStop = TRUE] ELSE run

CreateMessageResult(role, content) ==
    createMessage(chats, messages, now, session, ViewChat, role, content)

UpdateMessageResult(id, content, status, append) ==
    updateMessage(chats, messages, now, session, id, content, status, append)

\* sendMessage up to its first await (lines 86-107)
sendMessage(content, skipUserMessage) ==
    /\ Len(runs) < MaxRuns
    /\ trim(content) # <<>>
    /\ isStreaming' = TRUE
    /\ streamingContent' = <<>>
    /\ LET i == Len(runs) + 1
           role == IF skipUserMessage THEN "assistant" ELSE "user"
           text == IF skipUserMessage THEN <<>> ELSE trim(content)
           r == CreateMessageResult(role, text)
       IN /\ IssueCreateMessage(i, role, text)
          /\ runs' = Append(runs,
                 [NewRun(content, skipUserMessage) EXCEPT
                     !.pc = IF skipUserMessage THEN "createAssistant"
                            ELSE "createUser",
                     !.messages = LoadedMessages,
                     !.err = r.err,
                     !.ret = IF r.err = "" THEN r.ret[1] ELSE 0])
    /\ UNCHANGED <<pendingMessageId, abortControllerRef, autoTrigger, session, bridgeVars, uploadVars>>

\* finally (lines 203-206); the call is over and its locals are gone
Finally(i, run) ==
    /\ isStreaming' = FALSE
    /\ runs' = [runs EXCEPT ![i] =
          [run EXCEPT !.pc = "done", !.content = <<>>,
                      !.accumulatedContent = <<>>,
                      !.err = "", !.ret = 0, !.hasController = FALSE,
                      !.aborted = FALSE, !.messages = <<>>, !.body = <<>>]]

errorContent_Fallback(accumulatedContent) == FailedToGenerate

\* accumulatedContent || "Failed to generate response" (line 198)
errorContent(accumulatedContent) ==
    IF accumulatedContent # <<>> THEN accumulatedContent ELSE FailedToGenerate

\* catch of an error that is not an AbortError (lines 190-202)
Catch(i) ==
    LET run == [runs[i] EXCEPT !.failed = TRUE]
        id == run.assistantMessageId
        content == errorContent(run.accumulatedContent)
    IN IF id # 0
       THEN /\ IssueUpdateMessage(i, id, Some(content), "error", Absent)
            /\ runs' = [runs EXCEPT ![i] =
                  [Called(run) EXCEPT
                      !.pc = "catch",
                      !.err = UpdateMessageResult(id, Some(content),
                                                  "error", Absent).err]]
            /\ UNCHANGED isStreaming
       ELSE /\ NoIssue
            /\ Finally(i, run)

\* catch of an AbortError: return (lines 186-188), then finally
CatchAbort(i) ==
    /\ NoIssue
    /\ Finally(i, runs[i])

ResumeCreateUser_Unchecked(i) ==
    /\ runs[i].pc = "createUser"
    /\ LET r == CreateMessageResult("assistant", <<>>)
       IN /\ IssueCreateMessage(i, "assistant", <<>>)
          /\ runs' = [runs EXCEPT ![i] =
                [Called(@) EXCEPT
                    !.pc = "createAssistant", !.err = r.err,
                    !.ret = IF r.err = "" THEN r.ret[1] ELSE 0]]
          /\ UNCHANGED isStreaming
    /\ UNCHANGED <<streamingContent, pendingMessageId, abortControllerRef,
                   hasAutoTriggered, autoTrigger, session, bridgeVars, uploadVars>>

\* line 99 has returned or thrown; line 107 is issued
ResumeCreateUser(i) ==
    /\ runs[i].pc = "createUser"
    /\ IF runs[i].err # ""
          THEN Catch(i)
          ELSE LET r == CreateMessageResult("assistant", <<>>)
               IN /\ IssueCreateMessage(i, "assistant", <<>>)
                  /\ runs' = [runs EXCEPT ![i] =
                        [Called(@) EXCEPT
                            !.pc = "createAssistant", !.err = r.err,
                            !.ret = IF r.err = "" THEN r.ret[1] ELSE 0]]
                  /\ UNCHANGED isStreaming
    /\ UNCHANGED <<streamingContent, pendingMessageId, abortControllerRef,
                   hasAutoTriggered, autoTrigger, session, bridgeVars, uploadVars>>

\* line 107 has returned or thrown; lines 112-115
ResumeCreateAssistant(i) ==
    /\ runs[i].pc = "createAssistant"
    /\ IF runs[i].err # ""
          THEN Catch(i) /\ UNCHANGED pendingMessageId
          ELSE LET id == runs[i].ret
                   r == UpdateMessageResult(id, Absent, "streaming", Absent)
               IN /\ pendingMessageId' = id
                  /\ IssueUpdateMessage(i, id, Absent, "streaming", Absent)
                  /\ runs' = [runs EXCEPT ![i] =
                        [Called(@) EXCEPT
                            !.pc = "setStreaming",
                            !.assistantMessageId = id, !.err = r.err]]
                  /\ UNCHANGED isStreaming
    /\ UNCHANGED <<streamingContent, abortControllerRef, hasAutoTriggered,
                   autoTrigger, session, bridgeVars, uploadVars>>

\* line 115 has returned or thrown; lines 121-142: a new AbortController is
\* put in the ref and the request is sent with its signal
ResumeSetStreaming(i) ==
    /\ runs[i].pc = "setStreaming"
    /\ IF runs[i].err # ""
       THEN Catch(i) /\ UNCHANGED abortControllerRef
       ELSE /\ abortControllerRef' = i
            /\ runs' = [runs EXCEPT ![i] =
                  [@ EXCEPT !.pc = "fetch", !.hasController = TRUE,
                            !.body = requestMessages(runs[i].messages,
                                                    runs[i].content)]]
            /\ NoIssue
            /\ UNCHANGED isStreaming
    /\ UNCHANGED <<streamingContent, pendingMessageId, hasAutoTriggered,
                   autoTrigger, session, bridgeVars, uploadVars>>

\* the fetch of line 132 settles: aborted, a failure (rejected, not ok, no
\* body: lines 144-150), or a response with a body (line 153)
ResumeFetch(i) ==
    /\ runs[i].pc = "fetch"
    /\ IF runs[i].aborted
       THEN CatchAbort(i)
       ELSE \/ /\ runs' = [runs EXCEPT ![i] =
                     [@ EXCEPT !.pc = "read", !.messages = <<>>,
                               !.body = <<>>]]
               /\ NoIssue
               /\ UNCHANGED isStreaming
            \/ Catch(i)
    /\ UNCHANGED <<streamingContent, pendingMessageId, abortControllerRef,
                   hasAutoTriggered, autoTrigger, session, bridgeVars, uploadVars>>

accumulate_Replace(accumulatedContent, chunk) == chunk

\* accumulatedContent += chunk (line 161)
accumulate(accumulatedContent, chunk) == accumulatedContent \o chunk

\* reader.read() of line 157 settles with a chunk (lines 160-170)
ReadChunk(i) ==
    /\ runs[i].pc = "read"
    /\ ~runs[i].aborted
    /\ runs[i].received < MaxFrags
    /\ LET chunk == Chunk(i, runs[i].received + 1)
              acc == accumulate(runs[i].accumulatedContent, chunk)
              id == runs[i].assistantMessageId
              r == UpdateMessageResult(id, Some(acc), NoStatus, Some(FALSE))
          IN /\ streamingContent' = acc
             /\ IssueUpdateMessage(i, id, Some(acc), NoStatus, Some(FALSE))
             /\ runs' = [runs EXCEPT ![i] =
                   [Called(@) EXCEPT
                       !.pc = "persist", !.accumulatedContent = acc,
                       !.received = @ + 1, !.err = r.err]]
    /\ UNCHANGED <<isStreaming, pendingMessageId, abortControllerRef,
                   hasAutoTriggered, autoTrigger, session, bridgeVars, uploadVars>>

\* reader.read() settles with done (line 158, lines 175-181)
ReadDone(i) ==
    /\ runs[i].pc = "read"
    /\ ~runs[i].aborted
    /\ LET acc == runs[i].accumulatedContent
              id == runs[i].assistantMessageId
              r == UpdateMessageResult(id, Some(acc), "sent", Absent)
          IN /\ IssueUpdateMessage(i, id, Some(acc), "sent", Absent)
             /\ runs' = [runs EXCEPT ![i] =
                   [Called(@) EXCEPT !.pc = "final", !.err = r.err]]
    /\ UNCHANGED <<isStreaming, streamingContent, pendingMessageId,
                   abortControllerRef, hasAutoTriggered, autoTrigger, session, bridgeVars, uploadVars>>

\* reader.read() rejects: with an AbortError once the signal is aborted,
\* with the stream's error otherwise
ReadRejected(i) ==
    /\ runs[i].pc = "read"
    /\ IF runs[i].aborted
       THEN CatchAbort(i)
       ELSE Catch(i)
    /\ UNCHANGED <<streamingContent, pendingMessageId, abortControllerRef,
                   hasAutoTriggered, autoTrigger, session, bridgeVars, uploadVars>>

\* line 166 has returned or thrown; back to line 157
ResumePersist(i) ==
    /\ runs[i].pc = "persist"
    /\ IF runs[i].err # ""
       THEN Catch(i)
       ELSE /\ runs' = [runs EXCEPT ![i] = [@ EXCEPT !.pc = "read"]]
            /\ NoIssue
            /\ UNCHANGED isStreaming
    /\ UNCHANGED <<streamingContent, pendingMessageId, abortControllerRef,
                   hasAutoTriggered, autoTrigger, session, bridgeVars, uploadVars>>

\* line 176 has returned or thrown; lines 183-184, then finally
ResumeFinal(i) ==
    /\ runs[i].pc = "final"
    /\ IF runs[i].err # ""
       THEN Catch(i) /\ UNCHANGED <<streamingContent, pendingMessageId>>
       ELSE /\ streamingContent' = <<>>
            /\ pendingMessageId' = 0
            /\ NoIssue
            /\ Finally(i, runs[i])
    /\ UNCHANGED <<abortControllerRef, hasAutoTriggered, autoTrigger, session, bridgeVars, uploadVars>>

\* line 195 has returned or thrown; finally
ResumeCatch(i) ==
    /\ runs[i].pc = "catch"
    /\ NoIssue
    /\ Finally(i, runs[i])
    /\ UNCHANGED <<streamingContent, pendingMessageId, abortControllerRef,
                   hasAutoTriggered, autoTrigger, session, bridgeVars, uploadVars>>

\* the stop button, shown while isStreaming (lines 68-83, 308-317)
handleStop ==
    /\ isStreaming
    /\ isStreaming' = FALSE
    /\ IF pendingMessageId # 0 /\ streamingContent # <<>>
       THEN IssueUpdateMessage(0, pendingMessageId, Some(streamingContent),
                               "sent", Absent)
       ELSE NoIssue
    /\ runs' = [i \in DOMAIN runs |->
          LET aborted == IF i = abortControllerRef /\ InProgress(i) THEN TRUE
                         ELSE runs[i].aborted
          IN IF InProgress(i) /\ ~runs[i].stopped
             THEN [runs[i] EXCEPT !.aborted = aborted,
                                  !.stopped = TRUE,
                                  !.stopPc = runs[i].pc,
                                  !.stopContent = runs[i].accumulatedContent]
             ELSE [runs[i] EXCEPT !.aborted = aborted]]
    /\ pendingMessageId' = 0
    /\ streamingContent' = <<>>
    /\ UNCHANGED <<abortControllerRef, hasAutoTriggered, autoTrigger, session, bridgeVars, uploadVars>>

\* the form's submit (lines 228-238)
handleSubmit ==
    /\ ~isStreaming
    /\ \E inputValue \in Inputs : sendMessage(inputValue, FALSE)
    /\ UNCHANGED hasAutoTriggered

\* Enter in the textarea (lines 240-251)
handleKeyDown ==
    /\ ~isStreaming
    /\ \E inputValue \in Inputs : sendMessage(inputValue, FALSE)
    /\ UNCHANGED hasAutoTriggered

AutoTriggerEffect_NoLatch ==
    /\ autoTrigger
    /\ Len(ViewMessages) > 0
    /\ ~isStreaming
    /\ LET lastMessage == messages[ViewMessages[1]]
       IN /\ lastMessage.role = "user"
          /\ hasAutoTriggered' = TRUE
          /\ sendMessage(lastMessage.content, TRUE)

\* the auto-trigger effect (lines 212-226)
AutoTriggerEffect ==
    /\ autoTrigger
    /\ ~hasAutoTriggered
    /\ Len(ViewMessages) > 0
    /\ ~isStreaming
    /\ LET lastMessage == messages[ViewMessages[1]]
       IN /\ lastMessage.role = "user"
          /\ hasAutoTriggered' = TRUE
          /\ sendMessage(lastMessage.content, TRUE)

\* the backend stops resolving the view's identity (the session has ended)
SessionLost ==
    /\ session = Owner
    /\ session' = NoIdentity
    /\ UNCHANGED <<storeVars, isStreaming, streamingContent, pendingMessageId,
                   abortControllerRef, hasAutoTriggered, autoTrigger, runs, log,
                   bridgeVars, uploadVars>>

\* the chat as the page finds it: created by createChat with its initial
\* message, or with a first exchange completed in an earlier visit
InitialStores ==
    LET new(init) == createChat(<<>>, <<>>, 1, Owner, init[1], init)
        asked == new(Some(<<"q">>))
        placed == createMessage(asked.chats, asked.messages, 2, Owner,
                                ViewChat, "assistant", <<>>)
        answered == updateMessage(placed.chats, placed.messages, 3, Owner, 2,
                                  Some(<<"a">>), "sent", Absent)
    IN {[chats |-> asked.chats, messages |-> asked.messages, now |-> 2],
        [chats |-> answered.chats, messages |-> answered.messages, now |-> 4]}

InitWF ==
    /\ \E s \in InitialStores :
          /\ chats = s.chats
          /\ messages = s.messages
          /\ now = s.now
    /\ autoTrigger = TRUE
    /\ session = Owner
    /\ isStreaming = FALSE
    /\ streamingContent = <<>>
    /\ pendingMessageId = 0
    /\ abortControllerRef = 0
    /\ hasAutoTriggered = FALSE
    /\ runs = <<>>
    /\ log = [i \in DOMAIN messages |-> <<>>]
    /\ BridgeIdle
    /\ UploadIdle

NextWF ==
    \/ handleSubmit
    \/ handleKeyDown
    \/ handleStop
    \/ AutoTriggerEffect
    \/ SessionLost
    \/ \E i \in DOMAIN runs :
          \/ ResumeCreateUser(i)
          \/ ResumeCreateAssistant(i)
          \/ ResumeSetStreaming(i)
          \/ ResumeFetch(i)
          \/ ReadChunk(i)
          \/ ReadDone(i)
          \/ ReadRejected(i)
          \/ ResumePersist(i)
          \/ ResumeFinal(i)
          \/ ResumeCatch(i)

SpecWF == InitWF /\ [][NextWF]_vars

(***************************************************************************)
(* The chat route (the bridge): POST validates the body, puts the system   *)
(* prompt in front, opens a streamed completion upstream and relays its    *)
(* text to the caller through a ReadableStream.                            *)
(***************************************************************************)
SYSTEM_PROMPT == [role |-> "system", content |-> <<"$">>]

\* request bodies: message k of a body carries its own content
RECURSIVE BodiesUpTo(_)
BodiesUpTo(n) ==
    IF n = 0 THEN {<<>>}
    ELSE LET shorter == BodiesUpTo(n - 1)
         IN shorter \cup
            {Append(b, [role |-> r, content |-> <<Letters[n]>>]) :
                b \in {x \in shorter : Len(x) = n - 1}, r \in Roles}

Bodies == BodiesUpTo(MaxBody)

\* delta.content of an upstream chunk; the empty one stands for "", null and
\* a chunk without choices or delta
Fragments == {<<>>, <<"x">>, <<"y">>}

fullMessages_Always(body) == <<SYSTEM_PROMPT>> \o body

\* lines 55-57, body being parsed.data.messages
fullMessages(body) ==
    IF Len(body) > 0 /\ body[1].role = "system"
    THEN body
    ELSE <<SYSTEM_PROMPT>> \o body

relayed_All(enqueued, content) == Append(enqueued, content)

\* lines 72-75: an empty content is not enqueued
relayed(enqueued, content) ==
    IF content # <<>> THEN Append(enqueued, content) ELSE enqueued

BridgeOnly == UNCHANGED <<storeVars, viewVars, uploadVars>>

\* lines 32-64: an invalid body is answered with 400, a valid one is sent
\* upstream
POST ==
    /\ bridge.pc = "idle"
    /\ \E body \in Bodies :
          bridge' = IF Len(body) = 0
                    THEN [bridge EXCEPT !.pc = "responded", !.status = 400]
                    ELSE [bridge EXCEPT !.pc = "create", !.messages = body,
                                        !.fullMessages = fullMessages(body)]
    /\ BridgeOnly

\* client.chat.completions.create resolves with a stream; the response is
\* returned and start() begins to iterate (lines 59-95)
CreateResolved ==
    /\ bridge.pc = "create"
    /\ bridge' = [bridge EXCEPT !.pc = "relay", !.status = 200]
    /\ BridgeOnly

\* client.chat.completions.create rejects (lines 96-117)
CreateRejected ==
    /\ bridge.pc = "create"
    /\ bridge' = [bridge EXCEPT !.pc = "responded", !.status = 500]
    /\ BridgeOnly

\* one iteration of the for await (lines 71-76); enqueue on a stream the
\* caller has cancelled throws, which ends the loop in the catch, where
\* controller.error no longer has an effect
Relay ==
    /\ bridge.pc = "relay"
    /\ Len(bridge.delivered) < MaxUpstream
    /\ \E content \in Fragments :
          bridge' =
              IF bridge.cancelled /\ content # <<>>
              THEN [bridge EXCEPT !.pc = "caught",
                                  !.delivered = Append(@, content)]
              ELSE [bridge EXCEPT !.delivered = Append(@, content),
                                  !.enqueued = relayed(@, content)]
    /\ BridgeOnly

\* the upstream iteration ends; controller.close() (line 77) throws on a
\* cancelled stream
UpstreamEnds ==
    /\ bridge.pc = "relay"
    /\ bridge' = IF bridge.cancelled
                 THEN [bridge EXCEPT !.pc = "caught"]
                 ELSE [bridge EXCEPT !.pc = "closed", !.closed = TRUE]
    /\ BridgeOnly

\* the upstream iteration throws (lines 78-81)
UpstreamFails ==
    /\ bridge.pc = "relay"
    /\ bridge' = [bridge EXCEPT !.pc = "errored",
                                !.errored = ~bridge.cancelled]
    /\ BridgeOnly

cancel_NoAbort ==
    /\ bridge.pc \in {"relay", "closed"}
    /\ ~bridge.cancelled
    /\ bridge' = [bridge EXCEPT !.cancelled = TRUE]
    /\ BridgeOnly

\* the caller disconnects or cancels the body (lines 83-86)
cancel ==
    /\ bridge.pc \in {"relay", "closed"}
    /\ ~bridge.cancelled
    /\ bridge' = [bridge EXCEPT !.cancelled = TRUE, !.aborted = TRUE]
    /\ BridgeOnly

NextBridge ==
    \/ POST
    \/ CreateResolved
    \/ CreateRejected
    \/ Relay
    \/ UpstreamEnds
    \/ UpstreamFails
    \/ cancel

SpecBridge == Init /\ [][NextBridge]_vars

(***************************************************************************)
(* The report upload: UploadArea.  handleUpload stores the file, then      *)
(* handleAnalyze requests the analysis, saves the report record, reads the *)
(* analysis stream and saves the analysis.                                 *)
(***************************************************************************)
MAX_SIZE == 5 * 1024 * 1024

Files == {[type |-> t, size |-> n] :
             t \in {"application/pdf", "image/png"},
             n \in {MAX_SIZE, MAX_SIZE + 1}}

validate_TypeOnly(f) == f.type = "application/pdf"

\* lines 46-56
validate(f) == f.type = "application/pdf" /\ ~(f.size > MAX_SIZE)

\* the answers of the analysis endpoint
Responses == {[status |-> st, hasBody |-> b] :
                 st \in {200, 429, 500}, b \in BOOLEAN}

analyzeOutcome_NoBodyCheck(response) ==
    IF response.status = 429 THEN "overloaded"
    ELSE IF ~(response.status \in 200..299) THEN "throw"
    ELSE "started"

\* lines 114-127 of handleAnalyze
analyzeOutcome(response) ==
    IF response.status = 429 THEN "overloaded"
    ELSE IF ~(response.status \in 200..299) THEN "throw"
    ELSE IF ~response.hasBody THEN "throw"
    ELSE "started"

accumulateAnalysis_Replace(fullAnalysis, chunk) == chunk

\* fullAnalysis += chunk (line 152)
accumulateAnalysis(fullAnalysis, chunk) == fullAnalysis \o chunk

\* chunk k of an analysis stream
AnalysisChunk(k) == <<Letters[k]>>

UploadOnly == UNCHANGED <<storeVars, viewVars, bridgeVars>>

\* a call of the uploader mutations, with what the run knew when issuing it
UploaderCall(op, analysis) ==
    [op |-> op, n |-> uploadRun.n, uploadOk |-> uploadRun.uploadOk,
     status |-> uploadRun.status, hasBody |-> uploadRun.hasBody,
     stream |-> uploadRun.stream, received |-> uploadRun.received,
     analysis |-> analysis, file |-> uploadRun.file]

\* the file input changes (lines 58-62)
handleChange ==
    /\ \E selected \in Files \cup {Null} :
          uploadArea' = IF selected # Null /\ validate(selected)
                        THEN [uploadArea EXCEPT !.file = selected]
                        ELSE uploadArea
    /\ UNCHANGED <<uploadRun, uploaderCalls>>
    /\ UploadOnly

\* the remove buttons (lines 256, 268), disabled while uploading
removeFile ==
    /\ ~uploadArea.isUploading
    /\ uploadArea' = [uploadArea EXCEPT !.file = Null]
    /\ UNCHANGED <<uploadRun, uploaderCalls>>
    /\ UploadOnly

\* the upload button, disabled while uploading (lines 64-70, 275-276)
handleUpload ==
    /\ ~uploadArea.isUploading
    /\ uploadRun.pc \in {"idle", "done"}
    /\ uploadRun.n < MaxUploads
    /\ IF uploadArea.file = Null
       THEN UNCHANGED <<uploadArea, uploadRun>>
       ELSE /\ uploadArea' = [uploadArea EXCEPT !.isUploading = TRUE,
                                                 !.analysis = <<>>]
            /\ uploadRun' = [pc |-> "generateUploadUrl", n |-> uploadRun.n + 1,
                             file |-> uploadArea.file, uploadOk |-> FALSE,
                             storageId |-> 0, status |-> 0, hasBody |-> FALSE,
                             reportId |-> 0, fullAnalysis |-> <<>>,
                             received |-> 0, stream |-> "none"]
    /\ UNCHANGED uploaderCalls
    /\ UploadOnly

\* handleAnalyze returns analysisResult, null (Absent) or the text, to
\* handleUpload (lines 84-93, 174-176)
Returned(run, analysisResult) ==
    /\ uploadRun' = [run EXCEPT !.pc = "done"]
    /\ uploadArea' = [uploadArea EXCEPT
          !.isUploading = FALSE,
          !.isAnalyzing = FALSE,
          !.file = IF analysisResult # Absent /\ analysisResult[1] # <<>>
                   THEN Null ELSE @]

\* the catch of handleUpload (lines 88-93)
UploadFailed ==
    /\ uploadRun' = [uploadRun EXCEPT !.pc = "done"]
    /\ uploadArea' = [uploadArea EXCEPT !.isUploading = FALSE]

\* generateUploadUrl settles; the file is posted (lines 70-75)
GenerateUploadUrlSettled ==
    /\ uploadRun.pc = "generateUploadUrl"
    /\ \/ /\ uploadRun' = [uploadRun EXCEPT !.pc = "upload"]
          /\ UNCHANGED uploadArea
       \/ UploadFailed
    /\ UNCHANGED uploaderCalls
    /\ UploadOnly

\* the upload settles (lines 77-79); handleAnalyze starts and requests the
\* analysis (lines 99-112)
UploadSettled ==
    /\ uploadRun.pc = "upload"
    /\ \/ \E storageId \in 0..1 :
             /\ uploadRun' = [uploadRun EXCEPT !.pc = "analyze",
                                               !.uploadOk = TRUE,
                                               !.storageId = storageId]
             /\ uploadArea' = [uploadArea EXCEPT !.isAnalyzing = TRUE,
                                                 !.analysis = <<>>]
       \/ UploadFailed
    /\ UNCHANGED uploaderCalls
    /\ UploadOnly

\* the analysis request settles (lines 109-141)
AnalyzeSettled ==
    /\ uploadRun.pc = "analyze"
    /\ \/ \E response \in Responses :
             LET run == [uploadRun EXCEPT !.status = response.status,
                                          !.hasBody = response.hasBody]
             IN IF analyzeOutcome(response) # "started"
                THEN Returned(run, Absent) /\ UNCHANGED uploaderCalls
                ELSE /\ UNCHANGED uploadArea
                     /\ IF run.storageId # 0
                        THEN /\ uploadRun' = [run EXCEPT !.pc = "saveReport",
                                                         !.stream = "open"]
                             /\ uploaderCalls' =
                                   Append(uploaderCalls,
                                          [UploaderCall("saveReport", <<>>)
                                             EXCEPT !.status = response.status,
                                                    !.hasBody = response.hasBody,
                                                    !.stream = "open"])
                        ELSE /\ uploadRun' = [run EXCEPT !.pc = "read",
                                                         !.stream = "open"]
                             /\ UNCHANGED uploaderCalls
       \/ Returned(uploadRun, Absent) /\ UNCHANGED uploaderCalls
    /\ UploadOnly

\* saveReport settles (lines 134-144)
SaveReportSettled ==
    /\ uploadRun.pc = "saveReport"
    /\ \/ /\ uploadRun' = [uploadRun EXCEPT !.pc = "read",
                                             !.reportId = uploadRun.n]
          /\ UNCHANGED uploadArea
       \/ Returned(uploadRun, Absent)
    /\ UNCHANGED uploaderCalls
    /\ UploadOnly

\* reader.read() resolves with a chunk (lines 148-153)
ReadAnalysisChunk ==
    /\ uploadRun.pc = "read"
    /\ uploadRun.received < MaxAnalysis
    /\ LET full == accumulateAnalysis(uploadRun.fullAnalysis,
                                      AnalysisChunk(uploadRun.received + 1))
       IN /\ uploadRun' = [uploadRun EXCEPT !.fullAnalysis = full,
                                            !.received = @ + 1]
          /\ uploadArea' = [uploadArea EXCEPT !.analysis = full]
    /\ UNCHANGED uploaderCalls
    /\ UploadOnly

\* reader.read() resolves with done (lines 149, 156-169)
ReadAnalysisDone ==
    /\ uploadRun.pc = "read"
    /\ LET run == [uploadRun EXCEPT !.stream = "ended"]
       IN IF run.reportId # 0
          THEN /\ uploadRun' = [run EXCEPT !.pc = "saveAnalysis"]
               /\ uploaderCalls' =
                     Append(uploaderCalls,
                            [UploaderCall("saveAnalysis", run.fullAnalysis)
                               EXCEPT !.stream = "ended"])
               /\ UNCHANGED uploadArea
          ELSE Returned(run, Some(run.fullAnalysis)) /\ UNCHANGED uploaderCalls
    /\ UploadOnly

\* reader.read() rejects (lines 170-176)
ReadAnalysisFailed ==
    /\ uploadRun.pc = "read"
    /\ Returned([uploadRun EXCEPT !.stream = "failed"], Absent)
    /\ UNCHANGED uploaderCalls
    /\ UploadOnly

\* saveAnalysis settles (lines 158-176)
SaveAnalysisSettled ==
    /\ uploadRun.pc = "saveAnalysis"
    /\ \/ Returned(uploadRun, Some(uploadRun.fullAnalysis))
       \/ Returned(uploadRun, Absent)
    /\ UNCHANGED uploaderCalls
    /\ UploadOnly

NextUpload ==
    \/ handleChange
    \/ removeFile
    \/ handleUpload
    \/ GenerateUploadUrlSettled
    \/ UploadSettled
    \/ AnalyzeSettled
    \/ SaveReportSettled
    \/ ReadAnalysisChunk
    \/ ReadAnalysisDone
    \/ ReadAnalysisFailed
    \/ SaveAnalysisSettled

SpecUpload == Init /\ [][NextUpload]_vars

(***************************************************************************)
(* Properties of the store                                                 *)
(***************************************************************************)
AllStatusArgs == Statuses \cup {NoStatus}

\* the call threw and wrote nothing
Rejected(r) == r.err # "" /\ r.chats = chats /\ r.messages = messages

MessagesOf(c) == {i \in DOMAIN messages : messages[i].chatId = c}

\* C1: a call by an authenticated user B to renameChat, softDeleteChat,
\* createMessage or updateMessage on a chat (or a message of a chat) owned by
\* another user throws and leaves every chat and message record unchanged.
C1_OwnershipIsolation ==
    \A B \in Users, c \in DOMAIN chats :
        chats[c].userId # B =>
            /\ \A name \in Names :
                  Rejected(renameChat(chats, messages, now, B, c, name))
            /\ Rejected(softDeleteChat(chats, messages, now, B, c))
            /\ \A role \in Roles, content \in Contents :
                  Rejected(createMessage(chats, messages, now, B, c, role,
                                         content))
            /\ \A i \in MessagesOf(c), content \in OptContents,
                  status \in AllStatusArgs, append \in OptBooleans :
                  Rejected(updateMessage(chats, messages, now, B, i, content,
                                         status, append))

\* a live chat with a message, and another user whose rename is refused
C1_Witness ==
    \E B \in Users, c \in DOMAIN chats :
        /\ chats[c].userId # B
        /\ ~chats[c].isDeleted
        /\ MessagesOf(c) # {}
        /\ renameChat(chats, messages, now, B, c, <<" ", "n", " ">>).err
              = "Unauthorized"
        /\ now > 2

\* the chats table as it would be without the chats of users other than u
OwnChats(u) ==
    [i \in {j \in DOMAIN chats : chats[j].userId = u} |-> chats[i]]

\* C2: getChatById never throws; it returns null when the chat does not
\* exist, is owned by another user, is soft-deleted or no identity is
\* resolved; and what it returns to a caller does not depend on the chats of
\* other users (another user's chat reads as a nonexistent one).
C2_GetChatByIdMasks ==
    \A u \in Identities, id \in ChatIds :
        LET r == getChatById(chats, messages, u, id)
            alone == getChatById(OwnChats(u), messages, u, id)
        IN /\ r.err = ""
           /\ (\/ id \notin DOMAIN chats
               \/ u = NoIdentity
               \/ chats[id].userId # u
               \/ chats[id].isDeleted) => r.ret = Absent
           /\ r.ret = alone.ret
           /\ alone.err = ""

\* a live chat that its owner reads and another user reads as null
C2_Witness ==
    \E u \in Users, B \in Users, id \in DOMAIN chats :
        /\ chats[id].userId = u
        /\ B # u
        /\ getChatById(chats, messages, u, id).ret = Some(chats[id])
        /\ getChatById(chats, messages, B, id).ret = Absent

\* C3: every soft-deleted chat has the empty name.
C3_DeletedHasEmptyName ==
    \A c \in DOMAIN chats : chats[c].isDeleted => chats[c].name = <<>>

C4_CountMatches ==
    \A c \in DOMAIN chats : chats[c].messageCount = Cardinality(MessagesOf(c))

C4_NeverDecreases ==
    \A c \in DOMAIN chats : chats'[c].messageCount >= chats[c].messageCount

\* C4: for every chat, messageCount is the number of message records of that
\* chat, and it never decreases from one state to the next.
C4_MessageCount == [](C4_CountMatches) /\ [][C4_NeverDecreases]_vars

\* a chat holding an initial message and a message added by createMessage
C4_Witness ==
    \E c \in DOMAIN chats :
        /\ chats[c].messageCount = 2
        /\ \E i, j \in MessagesOf(c) : /\ i < j
                                       /\ messages[i].createdAt = chats[c].createdAt
                                       /\ messages[j].createdAt > chats[c].createdAt

\* C9: sent and error are terminal: once the status of a message is sent or
\* error, no store operation changes it afterwards.
C9_TerminalStatus ==
    [][\A i \in DOMAIN messages :
          messages[i].status \in {"sent", "error"}
              => messages'[i].status = messages[i].status]_vars

(***************************************************************************)
(* Properties of the send workflow                                         *)
(***************************************************************************)
\* run i has created its placeholder and knows its id
HasPlaceholder(i) == runs[i].assistantMessageId # 0

\* no store call of run i was rejected and its bridge request did not fail
Undisturbed(i) == session = Owner /\ ~runs[i].failed

\* the first stop of run i came while it was reading the stream, with
\* fragments f1..fk (k >= 1) accumulated
StoppedMidStream(i) ==
    /\ runs[i].stopped
    /\ runs[i].stopPc \in {"read", "persist"}
    /\ runs[i].stopContent # <<>>

\* C5: once sendMessage has returned or thrown, the placeholder it created
\* has status sent or error (here: for runs whose store calls were all
\* accepted)
C5_TerminalAfterReturn ==
    \A i \in DOMAIN runs :
        (runs[i].pc = "done" /\ HasPlaceholder(i) /\ session = Owner)
            => messages[runs[i].assistantMessageId].status \in {"sent", "error"}

\* C6: a stop mid-stream after f1..fk leaves exactly one persistence with
\* status sent, of content f1..fk, the message ends as that content with
\* status sent, and the run issues no call after the stop (here: for runs
\* that met no failure)
C6_StopMidStream ==
    \A i \in DOMAIN runs :
        (StoppedMidStream(i) /\ Undisturbed(i)) =>
            LET id == runs[i].assistantMessageId
                sentCalls == {k \in DOMAIN log[id] : log[id][k].status = "sent"}
            IN /\ Cardinality(sentCalls) = 1
               /\ \A k \in sentCalls :
                     log[id][k].content = Some(runs[i].stopContent)
               /\ messages[id].content = runs[i].stopContent
               /\ messages[id].status = "sent"
               /\ ~runs[i].calledAfterStop

\* C7: a run that was stopped, at whatever point, issues no createMessage or
\* updateMessage call after the stop (here: for runs that met no failure)
C7_StopCancels ==
    \A i \in DOMAIN runs :
        (runs[i].stopped /\ Undisturbed(i)) => ~runs[i].calledAfterStop

\* C8: the status of an assistant message changes only along pending ->
\* streaming, streaming -> sent, streaming -> error, pending -> error; user
\* messages start in sent and stay there (here: while the store accepts the
\* workflow's calls)
AllowedStatusSteps ==
    {<<"pending", "streaming">>, <<"streaming", "sent">>,
     <<"streaming", "error">>, <<"pending", "error">>}

C8_StatusStep ==
    session = Owner =>
        /\ \A id \in DOMAIN messages :
              LET before == messages[id].status
                  after == messages'[id].status
              IN IF messages[id].role = "user"
                 THEN before = "sent" /\ after = "sent"
                 ELSE before = after \/ <<before, after>> \in AllowedStatusSteps
        /\ \A id \in DOMAIN messages' \ DOMAIN messages :
              messages'[id].role = "user" => messages'[id].status = "sent"

C8_StatusTransitions == [][C8_StatusStep]_vars

\* the calls a run that is neither stopped nor failed has issued for its
\* placeholder when it has received k chunks
ExpectedLog(i, k, closed) ==
    <<[content |-> Absent, status |-> "streaming"]>>
    \o [j \in 1..k |-> [content |-> Some(Received(i, j)), status |-> NoStatus]]
    \o (IF closed
        THEN <<[content |-> Some(Received(i, k)), status |-> "sent"]>>
        ELSE <<>>)

\* C10: for a run whose stream delivers f1..fn and closes, the contents
\* persisted to the placeholder are f1, f1+f2, ..., f1+...+fn in that order,
\* then one persistence of f1+...+fn with status sent
C10_PersistedSequence ==
    \A i \in DOMAIN runs :
        (HasPlaceholder(i) /\ ~runs[i].stopped /\ ~runs[i].failed) =>
            LET id == runs[i].assistantMessageId
                issued == [k \in DOMAIN log[id] |->
                             [content |-> log[id][k].content,
                              status |-> log[id][k].status]]
            IN /\ issued = ExpectedLog(i, runs[i].received,
                                       runs[i].pc \in {"final", "done"})
               /\ \A k \in DOMAIN log[id] : log[id][k].by = i

C10_Witness ==
    \E i \in DOMAIN runs :
        /\ runs[i].pc = "done"
        /\ HasPlaceholder(i) /\ ~runs[i].stopped /\ ~runs[i].failed
        /\ runs[i].received = MaxFrags
        /\ Len(log[runs[i].assistantMessageId]) = MaxFrags + 2
        /\ messages[runs[i].assistantMessageId].status = "sent"
        /\ messages[runs[i].assistantMessageId].content = Received(i, MaxFrags)

\* the runs the auto-trigger effect has started
AutoTriggered == {i \in DOMAIN runs : runs[i].skipUserMessage}

\* C11: within one lifetime of the view the auto-trigger effect starts the
\* send workflow at most once, whatever the message list and the streaming
\* flag become afterwards, and the latch is set once it has
C11_AutoTriggerOnce ==
    /\ Cardinality(AutoTriggered) <= 1
    /\ AutoTriggered # {} => hasAutoTriggered

\* the effect has started a run, and its condition on the list and on the
\* streaming flag holds again
C11_Witness ==
    /\ AutoTriggered # {}
    /\ Len(runs) < MaxRuns
    /\ ~isStreaming
    /\ Len(ViewMessages) > 0
    /\ messages[ViewMessages[1]].role = "user"

\* C12: updateMessage writes the parent chat's updatedAt only when the call
\* moves the message into sent from another status, and writes nothing else
\* of the chat; a second mark-sent call right after the first leaves the
\* chat as the first left it
C12_MarkSentBumpsOnce ==
    \A u \in Identities, i \in DOMAIN messages, content \in OptContents,
       status \in AllStatusArgs, append \in OptBooleans :
        LET r == updateMessage(chats, messages, now, u, i, content, status,
                               append)
            again == updateMessage(r.chats, r.messages, now + 1, u, i, content,
                                   "sent", append)
            moved == r.err = "" /\ status = "sent"
                        /\ messages[i].status # "sent"
        IN /\ r.chats = IF moved
                        THEN [chats EXCEPT ![messages[i].chatId] =
                                 [@ EXCEPT !.updatedAt = now]]
                        ELSE chats
           /\ (r.err = "" /\ status = "sent")
                 => again.err = "" /\ again.chats = r.chats

\* a message that an update has moved into sent, bumping its chat, at a
\* time when a second mark-sent call would be seen to bump it again
C12_Witness ==
    \E i \in DOMAIN messages :
        /\ messages[i].role = "assistant"
        /\ messages[i].status = "sent"
        /\ chats[messages[i].chatId].updatedAt > messages[i].createdAt
        /\ chats[messages[i].chatId].updatedAt < now

\* C13: a chat that is soft-deleted stays soft-deleted and stays in the
\* table, whatever store operation any user calls next
C13_DeletedStays ==
    \A c \in DOMAIN chats :
        chats[c].isDeleted => c \in DOMAIN chats' /\ chats'[c].isDeleted

C13_SoftDeleteIrreversible == [][C13_DeletedStays]_vars

\* a soft-deleted chat that an operation has written since (its name,
\* cleared by the deletion, is set again)
C13_Witness ==
    \E c \in DOMAIN chats : chats[c].isDeleted /\ chats[c].name # <<>>

\* k is the least integer with 4 * k >= n
IsCeilOfQuarter(k, n) == 4 * k >= n /\ 4 * (k - 1) < n

\* contents of every length up to twice MaxLen
Texts == {Str(n, "a") : n \in 0..(2 * MaxLen)}

\* C14: a message inserted by createMessage, or by createChat as the
\* initial message, stores as tokens the ceiling of a quarter of the length
\* of its content (0 for the empty content)
C14_TokenEstimate ==
    /\ \A i \in DOMAIN messages :
          messages[i].updatedAt = NoTime
              => IsCeilOfQuarter(messages[i].tokens, Len(messages[i].content))
    /\ \A u \in Users, content \in Texts :
          /\ \A c \in DOMAIN chats, role \in Roles :
                LET r == createMessage(chats, messages, now, u, c, role, content)
                IN r.err = "" =>
                      /\ r.messages[r.ret[1]].content = content
                      /\ IsCeilOfQuarter(r.messages[r.ret[1]].tokens,
                                         Len(content))
          /\ \A name \in Names :
                LET r == createChat(chats, messages, now, u, name,
                                    Some(content))
                IN /\ r.err = ""
                   /\ content # <<>> =>
                         /\ Len(r.messages) = Len(messages) + 1
                         /\ r.messages[Len(r.messages)].content = content
                         /\ IsCeilOfQuarter(r.messages[Len(r.messages)].tokens,
                                            Len(content))

\* a stored message whose length is no multiple of 4, and an empty one
C14_Witness ==
    \E i, j \in DOMAIN messages :
        /\ messages[i].updatedAt = NoTime /\ messages[j].updatedAt = NoTime
        /\ Len(messages[i].content) % 4 # 0
        /\ messages[i].tokens > 0
        /\ messages[j].content = <<>>

(***************************************************************************)
(* Properties of the chat route                                            *)
(***************************************************************************)
\* C15: the list sent upstream begins with a system message and ends with
\* the caller's messages in their order; it is the caller's list itself when
\* that list begins with a system message, and one message longer, the
\* system prompt first, otherwise
C15_SystemPromptOnce ==
    bridge.fullMessages # <<>> =>
        LET full == bridge.fullMessages
            body == bridge.messages
            added == Len(full) - Len(body)
        IN /\ full[1].role = "system"
           /\ added \in {0, 1}
           /\ added = 0 <=> body[1].role = "system"
           /\ added = 1 => full[1] = SYSTEM_PROMPT
           /\ \A k \in DOMAIN body : full[k + added] = body[k]

\* a request whose first message is a system message has gone upstream
C15_Witness ==
    /\ bridge.pc = "relay"
    /\ Len(bridge.messages) = MaxBody
    /\ bridge.messages[1].role = "system"

NonEmpty(fragments) == SelectSeq(fragments, LAMBDA f : f # <<>>)

\* C16: while the caller has not cancelled, what the bridge has emitted is
\* what upstream has delivered with the empty fragments removed, in the same
\* order; the output is closed once upstream has ended, and not before
C16_RelayInOrder ==
    /\ ~bridge.cancelled => bridge.enqueued = NonEmpty(bridge.delivered)
    /\ bridge.pc = "closed" => bridge.closed
    /\ bridge.closed => bridge.pc = "closed"

\* upstream has ended after a sequence with an empty fragment between
\* non-empty ones
C16_Witness ==
    /\ bridge.pc = "closed" /\ ~bridge.cancelled
    /\ Len(bridge.delivered) = MaxUpstream
    /\ bridge.delivered[2] = <<>>
    /\ Len(bridge.enqueued) = MaxUpstream - 1

\* C17: the step in which the caller cancels aborts the upstream request,
\* and from then on the emitted fragments stay as they are
C17_CancelStep ==
    /\ bridge'.cancelled => bridge'.aborted
    /\ bridge.cancelled =>
          bridge'.cancelled /\ bridge'.enqueued = bridge.enqueued

C17_CancelAborts == [][C17_CancelStep]_vars

\* the caller cancelled after a fragment was emitted, and a fragment that
\* upstream delivered afterwards was not emitted
C17_Witness ==
    /\ bridge.cancelled /\ bridge.aborted
    /\ Len(bridge.enqueued) >= 1
    /\ Len(NonEmpty(bridge.delivered)) > Len(bridge.enqueued)

(***************************************************************************)
(* Properties of the report upload                                         *)
(***************************************************************************)
CallsOf(op) == {k \in DOMAIN uploaderCalls : uploaderCalls[k].op = op}

\* C18: saveReport is called only when the file was stored and the analysis
\* request was answered with a success status and a body; an upload in which
\* one of these failed, or that was answered 429, has no saveReport call
C18_ReportAfterAnalysisStarted ==
    \A k \in CallsOf("saveReport") :
        LET call == uploaderCalls[k]
        IN /\ call.uploadOk
           /\ call.status \in 200..299 /\ call.status # 429
           /\ call.hasBody
           /\ call.n = uploadRun.n =>
                 /\ uploadRun.uploadOk
                 /\ uploadRun.status \in 200..299
                 /\ uploadRun.hasBody

\* an upload whose report was saved, followed by one that the analysis
\* endpoint answered with 429 and that saved none
C18_Witness ==
    /\ uploadRun.pc = "done"
    /\ uploadRun.status = 429
    /\ \E k \in CallsOf("saveReport") : uploaderCalls[k].n < uploadRun.n
    /\ \A k \in CallsOf("saveReport") : uploaderCalls[k].n # uploadRun.n

RECURSIVE AnalysisText(_)
AnalysisText(k) ==
    IF k = 0 THEN <<>> ELSE AnalysisText(k - 1) \o AnalysisChunk(k)

\* C19: an upload has at most one saveAnalysis call, issued after its
\* analysis stream has ended, with all the chunks received in their order;
\* none while the stream is open or after it failed
C19_AnalysisSavedOnce ==
    /\ \A j, k \in CallsOf("saveAnalysis") :
          uploaderCalls[j].n = uploaderCalls[k].n => j = k
    /\ \A k \in CallsOf("saveAnalysis") :
          LET call == uploaderCalls[k]
          IN /\ call.stream = "ended"
             /\ call.analysis = AnalysisText(call.received)
             /\ call.n = uploadRun.n =>
                   /\ uploadRun.stream = "ended"
                   /\ uploadRun.received = call.received

\* an upload whose whole analysis was saved, followed by one whose stream
\* failed after a chunk and that saved none
C19_Witness ==
    /\ uploadRun.stream = "failed"
    /\ uploadRun.received >= 1
    /\ \E k \in CallsOf("saveAnalysis") :
          /\ uploaderCalls[k].n < uploadRun.n
          /\ uploaderCalls[k].received = MaxAnalysis
    /\ \A k \in CallsOf("saveAnalysis") : uploaderCalls[k].n # uploadRun.n

\* the updateMessage calls run i has issued for message id
CallsBy(i, id) == {k \in DOMAIN log[id] : log[id][k].by = i}

\* C20: a run that has failed otherwise than by a stop has issued, if it had
\* its placeholder, exactly one updateMessage with status error for it, with
\* the accumulated content, or the fallback text when nothing was
\* accumulated; if it had no placeholder it has issued no updateMessage
C20_ErrorPersistedOnce ==
    \A i \in DOMAIN runs :
        runs[i].failed =>
            IF HasPlaceholder(i)
            THEN LET id == runs[i].assistantMessageId
                     errors == {k \in CallsBy(i, id) :
                                   log[id][k].status = "error"}
                     buffer == Received(i, runs[i].received)
                 IN /\ Cardinality(errors) = 1
                    /\ \A k \in errors :
                          /\ log[id][k].content =
                                Some(IF runs[i].received > 0 THEN buffer
                                     ELSE FailedToGenerate)
                          /\ \A j \in CallsBy(i, id) : j <= k
                          /\ session = Owner => log[id][k].err = ""
            ELSE \A id \in DOMAIN log : CallsBy(i, id) = {}

\* a run whose stream failed after a chunk and whose placeholder holds the
\* accumulated content with status error, and a run that failed before it
\* had a placeholder
C20_Witness ==
    \E i, j \in DOMAIN runs :
        /\ runs[i].failed /\ HasPlaceholder(i) /\ runs[i].pc = "done"
        /\ runs[i].received >= 1
        /\ messages[runs[i].assistantMessageId].status = "error"
        /\ messages[runs[i].assistantMessageId].content
              = Received(i, runs[i].received)
        /\ runs[j].failed /\ ~HasPlaceholder(j)

(***************************************************************************)
(* Properties of the store's reads and writes                              *)
(***************************************************************************)
\* C21: getChatMessages throws, and returns no message, when the requested
\* chat does not exist, is owned by another user than the caller or is
\* soft-deleted; what it returns are messages of the requested chat, and
\* only the chat's owner gets them
C21_GetChatMessagesGuards ==
    \A u \in Identities, id \in ChatIds :
        LET r == getChatMessages(chats, messages, u, id)
            refused == \/ id \notin DOMAIN chats
                       \/ chats[id].userId # u
                       \/ chats[id].isDeleted
        IN /\ refused => r.err # "" /\ r.ret = Absent
           /\ r.err = "" =>
                 /\ chats[id].userId = u
                 /\ \A k \in DOMAIN r.ret :
                       /\ r.ret[k] \in DOMAIN messages
                       /\ messages[r.ret[k]].chatId = id

\* two chats with messages: the owner reads the live one, another user is
\* refused on it, and the owner is refused on the soft-deleted one
C21_Witness ==
    \E u \in Users, B \in Users, c1 \in DOMAIN chats, c2 \in DOMAIN chats :
        /\ c1 # c2 /\ B # u
        /\ MessagesOf(c1) # {} /\ MessagesOf(c2) # {}
        /\ getChatMessages(chats, messages, u, c1).ret # <<>>
        /\ getChatMessages(chats, messages, B, c1).err # ""
        /\ chats[c2].userId = u /\ chats[c2].isDeleted
        /\ getChatMessages(chats, messages, u, c2).err # ""

\* the chats getUserChats lists for user u
Listed(c, m, u) ==
    LET r == getUserChats(c, m, u) IN {r.ret[k] : k \in DOMAIN r.ret}

C22_OwnAndLive ==
    \A u \in Users :
        /\ getUserChats(chats, messages, u).err = ""
        /\ \A id \in Listed(chats, messages, u) :
              /\ id \in DOMAIN chats
              /\ chats[id].userId = u
              /\ chats[id].isDeleted = FALSE

C22_DeletedNeverListed ==
    \A id \in DOMAIN chats :
        chats[id].isDeleted =>
            \A u \in Users : id \notin Listed(chats', messages', u)

\* C22: getUserChats for user u lists only chats whose userId is u and that
\* are not soft-deleted; a soft-deleted chat is in no listing in the state
\* after any later operation either
C22_ListingOwnAndLive == [](C22_OwnAndLive) /\ [][C22_DeletedNeverListed]_vars

\* a user whose listing holds their live chat and not their soft-deleted
\* one, while another user's listing is empty
C22_Witness ==
    \E u \in Users, B \in Users, c1 \in DOMAIN chats, c2 \in DOMAIN chats :
        /\ B # u
        /\ chats[c1].userId = u /\ chats[c2].userId = u
        /\ chats[c2].isDeleted
        /\ Listed(chats, messages, u) = {c1}
        /\ Listed(chats, messages, B) = {}

(***************************************************************************)
(* Further properties of the send workflow                                 *)
(***************************************************************************)
\* the sendMessage calls that have not returned
Running == {i \in DOMAIN runs : InProgress(i)}

\* C23: at most one sendMessage call of the view is in progress at any time
\* (here: while no store call was rejected, no request failed and no request
\* was aborted)
C23_SingleWorkflow ==
    (session = Owner /\ \A i \in DOMAIN runs : ~runs[i].failed /\ ~runs[i].aborted)
        => Cardinality(Running) <= 1

\* a sendMessage call started by handleSubmit or handleKeyDown has failed
UserRunFailed ==
    \E i \in DOMAIN runs : runs[i].failed /\ ~runs[i].skipUserMessage

\* the newest message of the history the view was mounted on is an answer,
\* so every newer user message was persisted by a run of this view (the
\* clock stands still in this workflow and tells the histories apart)
MountedOnAnswer ==
    \E s \in InitialStores :
        s.now = now /\ s.messages[Len(s.messages)].role = "assistant"

C24_Step ==
    (MountedOnAnswer /\ UserRunFailed /\ Len(runs') > Len(runs))
        => ~runs'[Len(runs')].skipUserMessage

\* C24: once a send workflow started by a user submission has failed, every
\* send workflow that starts is started by a user submission, none by the
\* auto-trigger effect for the content that run persisted
C24_NoAutomaticRetry == [][C24_Step]_vars

\* the new user turn of run i as the request carries it
UserTurn(i) == [role |-> "user", content |-> trim(runs[i].content)]

\* the loaded messages that precede the new user turn, newest first: in an
\* auto-triggered run the newest loaded message is that turn
PriorMessages(i) ==
    IF runs[i].skipUserMessage THEN Tail(runs[i].messages)
    ELSE runs[i].messages

\* C25: the list a run sends to the bridge is the loaded history, oldest
\* first, followed by the new user turn, which is in the list once, for a
\* user submission and for an auto-triggered run alike
C25_RequestMessages ==
    \A i \in DOMAIN runs :
        runs[i].pc = "fetch" =>
            runs[i].body = reverse(PriorMessages(i)) \o <<UserTurn(i)>>

(***************************************************************************)
(* Further properties of the store                                         *)
(***************************************************************************)
\* C26: on a soft-deleted chat every createMessage call, and every
\* updateMessage call on one of its messages, by any caller and with any
\* arguments, throws and leaves messages and chats unchanged
C26_DeletedChatFrozen ==
    \A c \in DOMAIN chats :
        chats[c].isDeleted =>
            \A u \in Identities :
                /\ \A role \in Roles, content \in Contents :
                      Rejected(createMessage(chats, messages, now, u, c, role,
                                             content))
                /\ \A i \in MessagesOf(c), args \in UpdateArgs :
                      Rejected(updateMessage(chats, messages, now, u, i,
                                             args[1], args[2], args[3]))

(***************************************************************************)
(* The order of the send workflow's steps                                  *)
(***************************************************************************)
\* the store accepted the call that set message id to streaming, and it was
\* the first updateMessage call issued for the message
SetToStreaming(id) ==
    /\ Len(log[id]) >= 1
    /\ log[id][1].status = "streaming"
    /\ log[id][1].content = Absent
    /\ log[id][1].err = ""

\* the accepted updateMessage calls for message id that carry fragments
FragmentCalls(id) ==
    {k \in DOMAIN log[id] :
        /\ log[id][k].err = ""
        /\ log[id][k].content # Absent
        /\ log[id][k].content # Some(FailedToGenerate)}

C27_FragmentsAfterStreaming ==
    \A id \in DOMAIN log :
        \A k \in FragmentCalls(id) : k > 1 /\ SetToStreaming(id)

\* what a step may do to the position of a run
C27_Step ==
    \A i \in DOMAIN runs' :
        IF i \notin DOMAIN runs
        THEN runs'[i].pc = IF runs'[i].skipUserMessage THEN "createAssistant"
                           ELSE "createUser"
        ELSE LET before == runs[i]
                 after == runs'[i]
                 moved == after.pc # before.pc
             IN /\ (moved /\ after.pc = "createAssistant")
                    => before.pc = "createUser" /\ before.err = ""
                /\ (moved /\ after.pc = "setStreaming")
                    => /\ before.pc = "createAssistant" /\ before.err = ""
                       /\ after.assistantMessageId \in DOMAIN messages
                       /\ messages[after.assistantMessageId].role = "assistant"
                /\ (moved /\ after.pc = "fetch")
                    => /\ before.pc = "setStreaming" /\ before.err = ""
                       /\ SetToStreaming(before.assistantMessageId)
                /\ (moved /\ after.pc = "read")
                    => \/ before.pc = "fetch"
                       \/ before.pc = "persist" /\ before.err = ""
                /\ (moved /\ after.pc = "persist") => before.pc = "read"
                /\ (moved /\ after.pc = "final") => before.pc = "read"
                /\ after.failed => after.pc \in {"catch", "done"}
                /\ (moved /\ before.err # "")
                    => after.pc \in {"catch", "done"}

\* C27: the steps of sendMessage happen in the order user message,
\* placeholder, streaming status, bridge request, fragments, each only after
\* the one before it succeeded; a failed step is followed by the catch and
\* the return only; fragments are persisted only to a message that was set
\* to streaming first
C27_StepOrder == [](C27_FragmentsAfterStreaming) /\ [][C27_Step]_vars

\* a submitted run that went through every step and persisted a fragment,
\* and a submitted run that failed before it had a placeholder
C27_Witness ==
    \E i, j \in DOMAIN runs :
        /\ ~runs[i].skipUserMessage /\ ~runs[i].failed /\ ~runs[i].stopped
        /\ runs[i].pc = "done" /\ runs[i].received >= 1
        /\ FragmentCalls(runs[i].assistantMessageId) # {}
        /\ ~runs[j].skipUserMessage /\ runs[j].failed
        /\ runs[j].pc = "done" /\ ~HasPlaceholder(j)

\* the messages of the view's chat with role r
WithRole(m, r) ==
    {id \in DOMAIN m : m[id].chatId = ViewChat /\ m[id].role = r}

\* run i returns in this step
Returns(i) == i \in DOMAIN runs /\ runs[i].pc # "done" /\ runs'[i].pc = "done"

\* the step starts an auto-triggered run: the newest loaded message is a
\* user message, and the step adds the placeholder and no user message
C28_Start ==
    (Len(runs') > Len(runs) /\ runs'[Len(runs')].skipUserMessage) =>
        /\ Len(ViewMessages) > 0
        /\ messages[ViewMessages[1]].role = "user"
        /\ WithRole(messages', "user") = WithRole(messages, "user")
        /\ session = Owner =>
              /\ Len(messages') = Len(messages) + 1
              /\ messages'[Len(messages')].role = "assistant"
              /\ runs'[Len(runs')].ret = Len(messages')

\* when an auto-triggered run returns, the messages added since it started
\* are its placeholder and nothing else: the placeholder, the first message
\* it added, is the newest one
C28_Return ==
    \A i \in DOMAIN runs :
        (Returns(i) /\ runs[i].skipUserMessage /\ HasPlaceholder(i)) =>
            Len(messages') = runs[i].assistantMessageId

\* C28: an auto-triggered run starts only when the newest loaded message has
\* role user; from its start to its return no user message is added to the
\* chat and one assistant message is (here: while no store call was
\* rejected, no request failed and no request was aborted)
C28_Step ==
    (session = Owner /\ \A i \in DOMAIN runs : ~runs[i].failed /\ ~runs[i].aborted)
        => C28_Start /\ C28_Return

C28_AutoRunAddsOneAnswer == [][C28_Step]_vars

(***************************************************************************)
(* Properties of the stored message fields                                 *)
(***************************************************************************)
InitialStatus(role) == IF role = "user" THEN "sent" ELSE "pending"

\* C29: the message createMessage inserts has the role asked for and status
\* sent when that role is user, pending when it is assistant or system; the
\* initial message createChat inserts has role user and status sent
C29_InitialStatus ==
    \A u \in Users, content \in Contents :
        /\ \A c \in DOMAIN chats, role \in Roles :
              LET r == createMessage(chats, messages, now, u, c, role, content)
              IN r.err = "" =>
                    /\ Len(r.messages) = Len(messages) + 1
                    /\ r.ret = Some(Len(r.messages))
                    /\ r.messages[r.ret[1]].role = role
                    /\ r.messages[r.ret[1]].status = InitialStatus(role)
                    /\ r.messages[r.ret[1]].status = "sent" <=> role = "user"
        /\ \A name \in Names :
              LET r == createChat(chats, messages, now, u, name, Some(content))
              IN /\ r.err = ""
                 /\ IF content # <<>>
                    THEN /\ Len(r.messages) = Len(messages) + 1
                         /\ r.messages[Len(r.messages)].role = "user"
                         /\ r.messages[Len(r.messages)].status = "sent"
                         /\ r.messages[Len(r.messages)].chatId = r.ret[1]
                    ELSE r.messages = messages

\* a chat that holds its initial message, sent, and an assistant message
\* that createMessage inserted as pending
C29_Witness ==
    \E c \in DOMAIN chats, i \in DOMAIN messages, j \in DOMAIN messages :
        /\ messages[i].chatId = c /\ messages[j].chatId = c
        /\ messages[i].createdAt = chats[c].createdAt
        /\ messages[i].role = "user" /\ messages[i].status = "sent"
        /\ messages[j].createdAt > chats[c].createdAt
        /\ messages[j].role = "assistant" /\ messages[j].status = "pending"

\* C30: an accepted updateMessage call with content c on a message holding
\* old stores old followed by c when append is true and old is not empty,
\* and c in every other case; without a content argument it leaves the
\* stored content as it is
C30_ContentUpdate ==
    \A u \in Users, i \in DOMAIN messages, content \in OptContents,
       status \in AllStatusArgs, append \in OptBooleans :
        LET old == messages[i].content
            r == updateMessage(chats, messages, now, u, i, content, status,
                               append)
        IN r.err = "" =>
              r.messages[i].content =
                  IF content = Absent THEN old
                  ELSE IF append = Some(TRUE) /\ old # <<>>
                       THEN old \o content[1]
                       ELSE content[1]

\* a message whose content is two contents joined by an appending update
C30_Witness ==
    \E i \in DOMAIN messages :
        /\ Len(messages[i].content) = 2 * MaxLen
        /\ messages[i].updatedAt # NoTime

(***************************************************************************)
(* Calls without a resolved identity                                       *)
(***************************************************************************)
\* C31: with no identity resolved, createChat, createMessage, updateMessage,
\* renameChat and softDeleteChat, with any arguments, throw and leave chats
\* and messages unchanged; getUserChats and getChatMessages throw;
\* getChatById does not throw and returns null
C31_Unauthenticated ==
    /\ \A name \in Names, initialMessage \in OptContents :
          Rejected(createChat(chats, messages, now, NoIdentity, name,
                              initialMessage))
    /\ \A c \in ChatIds :
          /\ \A role \in Roles, content \in Contents :
                Rejected(createMessage(chats, messages, now, NoIdentity, c,
                                       role, content))
          /\ \A name \in Names :
                Rejected(renameChat(chats, messages, now, NoIdentity, c, name))
          /\ Rejected(softDeleteChat(chats, messages, now, NoIdentity, c))
          /\ Rejected(getChatMessages(chats, messages, NoIdentity, c))
          /\ getChatById(chats, messages, NoIdentity, c).err = ""
          /\ getChatById(chats, messages, NoIdentity, c).ret = Absent
    /\ \A i \in MessageIds, content \in OptContents, status \in AllStatusArgs,
          append \in OptBooleans :
          Rejected(updateMessage(chats, messages, now, NoIdentity, i, content,
                                 status, append))
    /\ Rejected(getUserChats(chats, messages, NoIdentity))

\* a live chat with a message that its owner reads and can write, while the
\* same calls without identity are refused
C31_Witness ==
    \E c \in DOMAIN chats, i \in DOMAIN messages :
        /\ ~chats[c].isDeleted /\ messages[i].chatId = c
        /\ getChatById(chats, messages, chats[c].userId, c).ret # Absent
        /\ renameChat(chats, messages, now, chats[c].userId, c, <<" ">>).err = ""
        /\ updateMessage(chats, messages, now, chats[c].userId, i, Absent,
                         "sent", Absent).err = ""
        /\ renameChat(chats, messages, now, NoIdentity, c, <<" ">>).err
              = "Unauthenticated"
        /\ updateMessage(chats, messages, now, NoIdentity, i, Absent, "sent",
                         Absent).err = "Unauthenticated"

\* C32: updateMessage, with any arguments and by any caller, leaves chatId,
\* role, createdAt and tokens of every message as they were; tokens stays
\* the estimate made at creation when the content is replaced or appended to
C32_UpdateFrame ==
    \A u \in Identities, i \in DOMAIN messages, content \in OptContents,
       status \in AllStatusArgs, append \in OptBooleans :
        LET r == updateMessage(chats, messages, now, u, i, content, status,
                               append)
        IN /\ DOMAIN r.messages = DOMAIN messages
           /\ \A j \in DOMAIN messages :
                 /\ r.messages[j].chatId = messages[j].chatId
                 /\ r.messages[j].role = messages[j].role
                 /\ r.messages[j].createdAt = messages[j].createdAt
                 /\ r.messages[j].tokens = messages[j].tokens
                 /\ j # i => r.messages[j] = messages[j]

\* a message whose content an update has changed and whose tokens is no
\* longer the estimate of its content
C32_Witness ==
    \E i \in DOMAIN messages :
        /\ messages[i].updatedAt # NoTime
        /\ messages[i].tokens # ceilDiv4(Len(messages[i].content))

(***************************************************************************)
(* Further properties of the report upload                                 *)
(***************************************************************************)
\* a PDF of at most 5 MB
WithinLimits(f) == f.type = "application/pdf" /\ f.size <= 5 * 1024 * 1024

\* C33: the selected file is always a PDF of at most 5 MB, and so is the
\* file of every upload that was started (upload URL requested, file posted,
\* analysis requested) and of every saveReport and saveAnalysis call
C33_OnlyValidFiles ==
    /\ uploadArea.file # Null => WithinLimits(uploadArea.file)
    /\ uploadRun.pc # "idle" => WithinLimits(uploadRun.file)
    /\ \A k \in DOMAIN uploaderCalls : WithinLimits(uploaderCalls[k].file)

\* a file of exactly the largest size is selected after a report was saved
\* for an upload that went through the transfer and the analysis request
C33_Witness ==
    /\ uploadArea.file # Null
    /\ uploadArea.file.size = MAX_SIZE
    /\ uploadRun.pc = "done" /\ uploadRun.uploadOk /\ uploadRun.status = 200
    /\ \E k \in CallsOf("saveReport") : uploaderCalls[k].n = uploadRun.n

====
